---- MODULE Spec2Model ----
(***************************************************************************)
(* State-machine model of the IIDX ScoreBoard web client:                  *)
(*   - the score-query store (filters + pagination),                       *)
(*   - scoresApi.getScores (empty-parameter stripping),                    *)
(*   - the score list hook useScores,                                      *)
(*   - the dashboard aggregation hook useDashboard,                        *)
(*   - the auth store, the startup session probe, login, logout and the    *)
(*     route guard.                                                        *)
(* Each subsystem has its own specification over the shared variables.     *)
(***************************************************************************)
EXTENDS Integers, Sequences, FiniteSets, TLC

VARIABLES
    \* ---- score-query store (zustand) ----
    filters,        \* state.filters: object playStyle/level/chartType/clearType
    pagination,     \* state.pagination: [page, size]
    filtersId,      \* identity of the object held in state.filters
    paginationId,   \* identity of the object held in state.pagination
    ev,             \* ghost: the operation that produced this state
    prev,           \* ghost: [filters, pagination] before the last store operation
    arg,            \* ghost: the argument of the last operation
    \* ---- HTTP layer ----
    wire,           \* ghost: query parameter objects transmitted by the last step
    \* ---- useScores hook instance ----
    scMounted,      \* is the Scores view mounted
    scData,         \* useState data (NoData or a page response)
    scLoading,      \* useState isLoading
    scError,        \* useState error (NoError or a message)
    scDeps,         \* identities [filters, pagination] the current fetchScores closes over
    inflight,       \* list requests of the hook that have not settled, in issue order
    scLatest,       \* ghost: fate of the request issued last ("none" | "pending" | "ok" | "failed")
    \* ---- useDashboard hook instance ----
    dMounted, dStats, dRecent, dLoading, dError,
    dReq,           \* status of the six requests of the current invocation
    dJoin,          \* Promise.all join: "none" | "waiting" | "resolved" | "rejected"
    dBefore,        \* ghost: stats, recent and session presence when the invocation started
    dIssued,        \* ghost: number of list requests issued by the current invocation
    dDb,            \* the backend data set the current invocation's requests read
    \* ---- auth store, startup probe, login, logout, router ----
    user, isLoading, authError,
    probe,          \* App.restoreSession: "inflight" | "resolved" | "rejected"
    login,          \* number of Login.handleSubmit calls awaiting authApi.login
    logoutReq,      \* number of Header.handleLogout calls awaiting authApi.logout
    route,          \* current location
    everLoggedOut,  \* ghost: the store's logout() has run
    everRedirected, \* ghost: the guard has rendered <Navigate to="/login">
    loginWon,       \* ghost: a login succeeded while the probe was in flight
    lastLogin,      \* ghost: the user the last successful login stored
    \* ---- CSV upload page ----
    cFile,          \* useState file (NoFile or a File)
    cPlayStyle,     \* useState playStyle
    cState,         \* useState uploadState
    cProgress,      \* useState progress
    cResult,        \* useState result (NoResult or a response)
    uploads,        \* upload requests that have not settled, in issue order
    cSent,          \* ghost: upload requests sent by the last step
    \* ---- signup page ----
    sgForm,         \* useState form: username, email, password, passwordConfirm
    sgErrors,       \* useState errors: field -> undefined | '' | message
    sgSubmitting,   \* useState isSubmitting
    sgToast,        \* ghost: toast shown by the last step ("none" | "success" | "error")
    sgSent,         \* ghost: signup requests sent by the last step
    \* ---- HTTP client (apiClient) ----
    cookieJar,      \* the browser's cookies for the page, in document.cookie order
    clConfig,       \* the request config the request interceptor last returned
    clDelivered,    \* what the response interceptors last handed to the caller
    clWarned,       \* ghost: the last step wrote a console warning
    \* ---- router (BrowserRouter, Routes) ----
    location,       \* the current pathname, as its sequence of segments
    hops            \* ghost: redirects followed since the last navigation of the user

ghostVars == <<ev, arg>>
storeVars == <<filters, pagination, filtersId, paginationId, prev>>
wireVars  == <<wire>>
scVars    == <<scMounted, scData, scLoading, scError, scDeps, inflight, scLatest>>
dashVars  == <<dMounted, dStats, dRecent, dLoading, dError, dReq, dJoin, dBefore, dIssued,
               dDb>>
authVars  == <<user, isLoading, authError, probe, login, logoutReq, route,
               everLoggedOut, everRedirected, loginWon, lastLogin>>
csvVars   == <<cFile, cPlayStyle, cState, cProgress, cResult, uploads, cSent>>
sgVars    == <<sgForm, sgErrors, sgSubmitting, sgToast, sgSent>>
clVars    == <<cookieJar, clConfig, clDelivered, clWarned>>
rtVars    == <<location, hops>>
extVars   == <<csvVars, sgVars, clVars, rtVars>>
coreVars  == <<storeVars, wireVars, scVars, dashVars, authVars>>
vars      == <<ghostVars, coreVars, extVars>>

(***************************************************************************)
(* JavaScript values.  Every value is a record of the same shape so that   *)
(* values of different JS types can be compared.                           *)
(***************************************************************************)
Str(x)      == [tag |-> "string", s |-> x, n |-> 0]
Num(k)      == [tag |-> "number", s |-> "", n |-> k]
JsNull      == [tag |-> "null", s |-> "", n |-> 0]
JsUndefined == [tag |-> "undefined", s |-> "", n |-> 0]
JsFunction  == [tag |-> "function", s |-> "", n |-> 0]
JsObject    == [tag |-> "object", s |-> "", n |-> 0]
EmptyStr    == Str("")

\* ToBoolean: the falsy values are '', 0, null, undefined (false and NaN do not occur).
JsTruthy(v) ==
    CASE v.tag = "string"    -> v.s # ""
      [] v.tag = "number"    -> v.n # 0
      [] v.tag = "null"      -> FALSE
      [] v.tag = "undefined" -> FALSE
      [] OTHER               -> TRUE

\* Object spread { ...a, ...b }: own keys of both, b's value wins.
Spread(a, b) ==
    [k \in (DOMAIN a) \cup (DOMAIN b) |-> IF k \in DOMAIN b THEN b[k] ELSE a[k]]

NoObject == [k \in {} |-> JsNull]

(***************************************************************************)
(* Bounds and program constants.                                           *)
(***************************************************************************)
MaxPage     == 1      \* pages 0..MaxPage are requested
MaxInFlight == 2      \* list requests of useScores that may overlap
DefaultSize == 20     \* pagination.size of the store's initial state

(***************************************************************************)
(* Score-query store (useScoresStore).                                     *)
(***************************************************************************)
FilterKeys == {"playStyle", "level", "chartType", "clearType"}

\* One non-empty option per select is enough to tell "set" from "unset".
FilterOptions ==
    [playStyle |-> {"", "SP"}, level |-> {"", "12"},
     chartType |-> {"", "ANOTHER"}, clearType |-> {"", "CLEAR"}]

InitialFilters    == [k \in FilterKeys |-> EmptyStr]
InitialPagination == [page |-> 0, size |-> DefaultSize]

\* The identity of a freshly allocated object differs from the identity of
\* the object it replaces (the only comparison React's dependency check makes).
Fresh(id) == 1 - id

\* setFilters' updater: the partial state it hands to set().
setFilters_Stale(state, newFilters) ==
    [filters    |-> Spread(state.filters, newFilters),
     pagination |-> state.pagination]

setFilters_Replace(state, newFilters) ==
    [filters    |-> Spread(InitialFilters, newFilters),
     pagination |-> [state.pagination EXCEPT !.page = 0]]

setFilters(state, newFilters) ==
    [filters    |-> Spread(state.filters, newFilters),
     pagination |-> [state.pagination EXCEPT !.page = 0]]

\* setPage's updater.
setPage(state, page) ==
    [pagination |-> [state.pagination EXCEPT !.page = page]]

\* resetFilters' partial state.
resetFilters ==
    [filters    |-> InitialFilters,
     pagination |-> [page |-> 0, size |-> DefaultSize]]

StoreState == [filters |-> filters, pagination |-> pagination]

\* zustand set(partial): every key of the partial replaces the state's value
\* with the (new) object of the partial; other keys keep value and identity.
ZustandSet(partial) ==
    /\ filters' = IF "filters" \in DOMAIN partial THEN partial.filters ELSE filters
    /\ filtersId' = IF "filters" \in DOMAIN partial THEN Fresh(filtersId) ELSE filtersId
    /\ pagination' = IF "pagination" \in DOMAIN partial THEN partial.pagination
                     ELSE pagination
    /\ paginationId' = IF "pagination" \in DOMAIN partial THEN Fresh(paginationId)
                       ELSE paginationId
    /\ prev' = StoreState

\* Partial filter objects: any subset of the keys, each with one of its options.
PartialFilters ==
    UNION { [ks -> {Str(v) : v \in UNION {FilterOptions[k] : k \in FilterKeys}}]
            : ks \in SUBSET FilterKeys }

AllPartialFilters ==
    { f \in PartialFilters : \A k \in DOMAIN f : f[k].s \in FilterOptions[k] }

\* What ScoreFilter passes: one field per select change.
UiKeys == {"playStyle"}
UiFilterChanges ==
    { f \in AllPartialFilters : \E k \in UiKeys : DOMAIN f = {k} }

(***************************************************************************)
(* scoresApi.getScores: strip '', null and undefined, then GET /scores.    *)
(***************************************************************************)
cleanParams_KeepEmpty(params) ==
    [k \in {k \in DOMAIN params : params[k] # JsNull /\ params[k] # JsUndefined}
        |-> params[k]]

cleanParams_Falsy(params) ==
    [k \in {k \in DOMAIN params : JsTruthy(params[k])} |-> params[k]]

cleanParams(params) ==
    [k \in {k \in DOMAIN params :
                params[k] # EmptyStr /\ params[k] # JsNull /\ params[k] # JsUndefined}
        |-> params[k]]

\* The query parameters apiClient.get('/scores', { params }) transmits.
getScores(params) == cleanParams(params)

(***************************************************************************)
(* useScores: the score list hook.                                         *)
(***************************************************************************)
NoData == [present |-> FALSE, content |-> NoObject, totalElements |-> 0,
           totalPages |-> 0, number |-> 0]

\* Totals the backend may report for a query (0 rows, or more than two pages).
Totals == {0, 45}

CeilDiv(a, b) == (a + b - 1) \div b

\* The Spring page envelope the backend answers a transmitted query with.
PageResponse(query, total) ==
    [present       |-> TRUE,
     content       |-> query,
     totalElements |-> total,
     totalPages    |-> CeilDiv(total, query.size.n),
     number        |-> query.page.n]

\* Rejections: no response at all, a response without data, a response
\* with an empty message, a response with the backend message "X".
Errors ==
    { [hasResponse |-> FALSE, hasData |-> FALSE, message |-> JsUndefined],
      [hasResponse |-> TRUE,  hasData |-> FALSE, message |-> JsUndefined],
      [hasResponse |-> TRUE,  hasData |-> TRUE,  message |-> EmptyStr],
      [hasResponse |-> TRUE,  hasData |-> TRUE,  message |-> Str("X")] }

\* err.response?.data?.message
ErrMessage(err) ==
    IF err.hasResponse /\ err.hasData THEN err.message ELSE JsUndefined

\* a ?? b: only null and undefined fall through to b.
OrElse_Nullish(a, b) == IF a = JsNull \/ a = JsUndefined THEN b ELSE a

\* a || b
OrElse(a, b) == IF JsTruthy(a) THEN a ELSE b

GenericScoresError == Str("scores-load-failed")

\* The argument fetchScores passes to getScores: { ...filters, page, size }.
ScoresParams(f, pg) ==
    Spread(f, [page |-> Num(pg.page), size |-> Num(pg.size)])

\* useCallback(..., [filters, pagination]) + useEffect(..., [fetchScores]):
\* the effect runs again iff one dependency is another object than before.
DepsChanged_FiltersOnly(old, new) == old.filters # new.filters

DepsChanged(old, new) ==
    old.filters # new.filters \/ old.pagination # new.pagination

\* fetchScores up to its await, for the store state fs/pg the closure holds.
FetchScores(f, pg) ==
    /\ scLoading' = TRUE
    /\ scError' = JsNull
    /\ inflight' = Append(inflight, getScores(ScoresParams(f, pg)))
    /\ wire' = <<getScores(ScoresParams(f, pg))>>
    /\ scLatest' = "pending"
    /\ UNCHANGED scData

\* The re-render of the Scores view that follows a store change.
RenderScores ==
    LET new == [filters |-> filtersId', pagination |-> paginationId'] IN
    /\ UNCHANGED scMounted
    /\ IF scMounted /\ DepsChanged(scDeps, new)
       THEN /\ scDeps' = new
            /\ FetchScores(filters', pagination')
       ELSE /\ UNCHANGED <<scData, scLoading, scError, scDeps, inflight, scLatest>>
            /\ wire' = <<>>

CanIssue == scMounted => Len(inflight) < MaxInFlight

SetFilters(f) ==
    /\ UNCHANGED <<dashVars, authVars, extVars>>
    /\ CanIssue
    /\ ZustandSet(setFilters(StoreState, f))
    /\ ev' = "setFilters"
    /\ arg' = f
    /\ RenderScores

SetPage(p) ==
    /\ UNCHANGED <<dashVars, authVars, extVars>>
    /\ CanIssue
    /\ ZustandSet(setPage(StoreState, p))
    /\ ev' = "setPage"
    /\ arg' = p
    /\ RenderScores

\* Scores.jsx: the pagination bar is rendered when the view is neither
\* loading nor in error and the displayed response has more than one page.
PaginationShown ==
    /\ scMounted /\ ~scLoading /\ ~JsTruthy(scError)
    /\ (IF scData.present THEN scData.totalPages ELSE 0) > 1

\* currentPage as the hook returns it: data?.number ?? 0.
CurrentPage == IF scData.present THEN scData.number ELSE 0

\* The "previous" button: setPage(currentPage - 1), disabled on page 0.
PrevPageClick ==
    /\ PaginationShown
    /\ ~(CurrentPage = 0)
    /\ SetPage(CurrentPage - 1)

\* The "next" button: setPage(currentPage + 1), disabled on the last page.
NextPageClick ==
    /\ PaginationShown
    /\ ~(CurrentPage >= scData.totalPages - 1)
    /\ CurrentPage + 1 <= MaxPage
    /\ SetPage(CurrentPage + 1)

\* A page-number button: setPage(i) for i in 0..totalPages-1.
PageNumberClick(i) ==
    /\ PaginationShown
    /\ i \in 0..(scData.totalPages - 1)
    /\ SetPage(i)

ResetFilters ==
    /\ UNCHANGED <<dashVars, authVars, extVars>>
    /\ CanIssue
    /\ ZustandSet(resetFilters)
    /\ ev' = "resetFilters"
    /\ arg' = 0
    /\ RenderScores

\* Mount of the Scores view: fresh hook state, then the effect's first run.
ScMount ==
    /\ UNCHANGED <<dashVars, authVars, extVars>>
    /\ ~scMounted
    /\ scMounted' = TRUE
    /\ scDeps' = [filters |-> filtersId, pagination |-> paginationId]
    /\ scData' = NoData
    /\ scLoading' = TRUE
    /\ scError' = JsNull
    /\ inflight' = <<getScores(ScoresParams(filters, pagination))>>
    /\ wire' = <<getScores(ScoresParams(filters, pagination))>>
    /\ scLatest' = "pending"
    /\ ev' = "mount"
    /\ arg' = 0
    /\ UNCHANGED storeVars

\* Unmount: the hook state is discarded.  Requests still in flight settle
\* into a discarded instance, which nothing observes; they are dropped here.
ScUnmount ==
    /\ UNCHANGED <<dashVars, authVars, extVars>>
    /\ scMounted
    /\ scMounted' = FALSE
    /\ scData' = NoData
    /\ scLoading' = TRUE
    /\ scError' = JsNull
    /\ inflight' = <<>>
    /\ scLatest' = "none"
    /\ wire' = <<>>
    /\ ev' = "unmount"
    /\ arg' = 0
    /\ UNCHANGED <<storeVars, scDeps>>

\* refetch: the hook's current fetchScores called by hand.
ScRefetch ==
    /\ UNCHANGED <<dashVars, authVars, extVars>>
    /\ scMounted
    /\ Len(inflight) < MaxInFlight
    /\ FetchScores(filters, pagination)
    /\ ev' = "refetch"
    /\ arg' = 0
    /\ UNCHANGED <<storeVars, scMounted, scDeps>>

\* The request issued last is, while pending, the last one in flight.
Settled(i, outcome) ==
    IF scLatest = "pending" /\ i = Len(inflight) THEN outcome ELSE scLatest

Remove(seq, i) == [j \in 1..(Len(seq) - 1) |-> IF j < i THEN seq[j] ELSE seq[j + 1]]

\* A hook that ignores every response but that of the request issued last.
ScResolve_LatestOnly(i, total) ==
    /\ UNCHANGED <<dashVars, authVars, extVars>>
    /\ scMounted
    /\ i \in 1..Len(inflight)
    /\ scData' = IF i = Len(inflight) THEN PageResponse(inflight[i], total)
                 ELSE scData
    /\ scLoading' = FALSE
    /\ inflight' = Remove(inflight, i)
    /\ scLatest' = Settled(i, "ok")
    /\ wire' = <<>>
    /\ ev' = "resolve"
    /\ arg' = i
    /\ UNCHANGED <<storeVars,
                   scMounted, scError, scDeps>>

\* A hook that merges a response into the data it already holds: the total
\* of the first response is kept.
ScResolve_Merge(i, total) ==
    /\ UNCHANGED <<dashVars, authVars, extVars>>
    /\ scMounted
    /\ i \in 1..Len(inflight)
    /\ scData' = IF scData.present
                 THEN [PageResponse(inflight[i], total) EXCEPT
                          !.totalElements = scData.totalElements]
                 ELSE PageResponse(inflight[i], total)
    /\ scLoading' = FALSE
    /\ inflight' = Remove(inflight, i)
    /\ scLatest' = Settled(i, "ok")
    /\ wire' = <<>>
    /\ ev' = "resolve"
    /\ arg' = i
    /\ UNCHANGED <<storeVars,
                   scMounted, scError, scDeps>>

\* Request i resolves: setData(result), then finally setIsLoading(false).
ScResolve(i, total) ==
    /\ UNCHANGED <<dashVars, authVars, extVars>>
    /\ scMounted
    /\ i \in 1..Len(inflight)
    /\ scData' = PageResponse(inflight[i], total)
    /\ scLoading' = FALSE
    /\ inflight' = Remove(inflight, i)
    /\ scLatest' = Settled(i, "ok")
    /\ wire' = <<>>
    /\ ev' = "resolve"
    /\ arg' = i
    /\ UNCHANGED <<storeVars,
                   scMounted, scError, scDeps>>

\* Request i rejects: setError(message || generic), then setIsLoading(false).
ScReject(i, err) ==
    /\ UNCHANGED <<dashVars, authVars, extVars>>
    /\ scMounted
    /\ i \in 1..Len(inflight)
    /\ scError' = OrElse(ErrMessage(err), GenericScoresError)
    /\ scLoading' = FALSE
    /\ inflight' = Remove(inflight, i)
    /\ scLatest' = Settled(i, "failed")
    /\ wire' = <<>>
    /\ ev' = "reject"
    /\ arg' = err
    /\ UNCHANGED <<storeVars,
                   scMounted, scData, scDeps>>

\* A direct call of scoresApi.getScores with an arbitrary parameter object.
ParamValues == {EmptyStr, JsNull, JsUndefined, Str("CLEAR"), Num(0), Num(1)}
ParamKeys   == {"clearType", "level", "page"}
ParamObjects == UNION { [ks -> ParamValues] : ks \in SUBSET ParamKeys }

ApiGetScores(params) ==
    /\ UNCHANGED <<dashVars, authVars, extVars>>
    /\ wire' = <<getScores(params)>>
    /\ ev' = "getScores"
    /\ arg' = params
    /\ UNCHANGED <<storeVars, scVars>>

(***************************************************************************)
(* Auth store (useAuthStore), route guard, startup probe, login, logout.   *)
(***************************************************************************)
Alice == [tag |-> "object", s |-> "alice", n |-> 1]
Bob   == [tag |-> "object", s |-> "bob", n |-> 2]
Users == {Alice, Bob}

\* The members of the store state a component destructures.
AuthStoreState ==
    [user |-> user, isLoading |-> isLoading, error |-> authError,
     isAuthenticated |-> JsFunction]

\* What ProtectedRoute renders for a store state.
ProtectedRoute_UserFirst(st) ==
    IF ~JsTruthy(st.user) THEN "redirect"
    ELSE IF st.isLoading THEN "waiting"
    ELSE "children"

ProtectedRoute_NoLoadingCheck(st) ==
    IF ~JsTruthy(st.user) THEN "redirect" ELSE "children"

ProtectedRoute(st) ==
    IF st.isLoading THEN "waiting"
    ELSE IF ~JsTruthy(st.user) THEN "redirect"
    ELSE "children"

PublicRoutes    == {"/login", "/signup"}
ProtectedRoutes == {"/", "/scores"}
Routes          == PublicRoutes \cup ProtectedRoutes

MaxLogin  == 1   \* login requests that may be in flight together
MaxLogout == 1   \* logout requests that may be in flight together

AuthFrame == UNCHANGED <<storeVars, wireVars, scVars, dashVars, extVars>>

\* restoreSession, try branch: setUser(user); finally setLoading(false).
ProbeResolve(u) ==
    /\ probe = "inflight"
    /\ user' = u
    /\ authError' = JsNull
    /\ isLoading' = FALSE
    /\ probe' = "resolved"
    /\ ev' = "probeResolve"
    /\ arg' = u
    /\ UNCHANGED <<login, logoutReq, route, everLoggedOut, everRedirected,
                   loginWon, lastLogin>>
    /\ AuthFrame

ProbeReject_NoFinally ==
    /\ probe = "inflight"
    /\ probe' = "rejected"
    /\ ev' = "probeReject"
    /\ arg' = 0
    /\ UNCHANGED <<user, authError, isLoading, login, logoutReq, route, everLoggedOut,
                   everRedirected, loginWon, lastLogin>>
    /\ AuthFrame

ProbeReject_Clears ==
    /\ probe = "inflight"
    /\ user' = JsNull
    /\ authError' = JsNull
    /\ isLoading' = FALSE
    /\ probe' = "rejected"
    /\ ev' = "probeReject"
    /\ arg' = 0
    /\ UNCHANGED <<login, logoutReq, route, everLoggedOut, everRedirected,
                   loginWon, lastLogin>>
    /\ AuthFrame

\* restoreSession, catch branch (empty); finally setLoading(false).
ProbeReject ==
    /\ probe = "inflight"
    /\ isLoading' = FALSE
    /\ probe' = "rejected"
    /\ ev' = "probeReject"
    /\ arg' = 0
    /\ UNCHANGED <<user, authError, login, logoutReq, route, everLoggedOut,
                   everRedirected, loginWon, lastLogin>>
    /\ AuthFrame

\* In-app navigation (link, history).
Navigate(r) ==
    /\ r # route
    /\ route' = r
    /\ ev' = "navigate"
    /\ arg' = 0
    /\ UNCHANGED <<user, isLoading, authError, probe, login, logoutReq, everLoggedOut,
                   everRedirected, loginWon, lastLogin>>
    /\ AuthFrame

\* The guard of a protected route renders <Navigate to="/login" replace />.
GuardRedirect ==
    /\ route \in ProtectedRoutes
    /\ ProtectedRoute(AuthStoreState) = "redirect"
    /\ route' = "/login"
    /\ everRedirected' = TRUE
    /\ ev' = "guardRedirect"
    /\ arg' = 0
    /\ UNCHANGED <<user, isLoading, authError, probe, login, logoutReq, everLoggedOut,
                   loginWon, lastLogin>>
    /\ AuthFrame

\* Login.handleSubmit up to its await (the page is public).
LoginSubmit ==
    /\ route = "/login"
    /\ login < MaxLogin
    /\ login' = login + 1
    /\ ev' = "loginSubmit"
    /\ arg' = 0
    /\ UNCHANGED <<user, isLoading, authError, probe, logoutReq, route, everLoggedOut,
                   everRedirected, loginWon, lastLogin>>
    /\ AuthFrame

\* A login handler that navigates without storing the user.
LoginResolve_NoSetUser(u) ==
    /\ login > 0
    /\ login' = login - 1
    /\ route' = "/"
    /\ ev' = "loginResolve"
    /\ arg' = u
    /\ UNCHANGED <<user, authError, isLoading, probe, logoutReq, everLoggedOut,
                   everRedirected, loginWon, lastLogin>>
    /\ AuthFrame

\* authApi.login resolved: setUser(user); navigate('/').
LoginResolve(u) ==
    /\ login > 0
    /\ login' = login - 1
    /\ user' = u
    /\ authError' = JsNull
    /\ route' = "/"
    /\ loginWon' = (loginWon \/ probe = "inflight")
    /\ lastLogin' = u
    /\ ev' = "loginResolve"
    /\ arg' = u
    /\ UNCHANGED <<isLoading, probe, logoutReq, everLoggedOut, everRedirected>>
    /\ AuthFrame

\* A login handler that ends the session when the request fails.
LoginReject_Clears ==
    /\ login > 0
    /\ login' = login - 1
    /\ user' = JsNull
    /\ ev' = "loginReject"
    /\ arg' = 0
    /\ UNCHANGED <<isLoading, authError, probe, logoutReq, route, everLoggedOut,
                   everRedirected, loginWon, lastLogin>>
    /\ AuthFrame

\* authApi.login rejected: a toast, nothing stored.
LoginReject ==
    /\ login > 0
    /\ login' = login - 1
    /\ ev' = "loginReject"
    /\ arg' = 0
    /\ UNCHANGED <<user, isLoading, authError, probe, logoutReq, route, everLoggedOut,
                   everRedirected, loginWon, lastLogin>>
    /\ AuthFrame

\* The header is rendered only inside the guard's children.
HeaderShown ==
    route \in ProtectedRoutes /\ ProtectedRoute(AuthStoreState) = "children"

\* Header.handleLogout up to its await.
LogoutClick ==
    /\ HeaderShown
    /\ logoutReq < MaxLogout
    /\ logoutReq' = logoutReq + 1
    /\ ev' = "logoutClick"
    /\ arg' = 0
    /\ UNCHANGED <<user, isLoading, authError, probe, login, route, everLoggedOut,
                   everRedirected, loginWon, lastLogin>>
    /\ AuthFrame

\* A logout handler whose catch branch does nothing.
LogoutSettle_OnlyOnSuccess(ok) ==
    /\ logoutReq > 0
    /\ logoutReq' = logoutReq - 1
    /\ IF ok
       THEN /\ user' = JsNull
            /\ authError' = JsNull
            /\ route' = "/login"
            /\ everLoggedOut' = TRUE
       ELSE UNCHANGED <<user, authError, route, everLoggedOut>>
    /\ ev' = IF ok THEN "logoutResolve" ELSE "logoutReject"
    /\ arg' = 0
    /\ UNCHANGED <<isLoading, probe, login, everRedirected, loginWon, lastLogin>>
    /\ AuthFrame

\* authApi.logout settled, either way: logout(); navigate('/login').
LogoutSettle(ok) ==
    /\ logoutReq > 0
    /\ logoutReq' = logoutReq - 1
    /\ user' = JsNull
    /\ authError' = JsNull
    /\ route' = "/login"
    /\ everLoggedOut' = TRUE
    /\ ev' = IF ok THEN "logoutResolve" ELSE "logoutReject"
    /\ arg' = 0
    /\ UNCHANGED <<isLoading, probe, login, everRedirected, loginWon, lastLogin>>
    /\ AuthFrame

(***************************************************************************)
(* useDashboard: six list requests joined by Promise.all.                  *)
(***************************************************************************)
\* The parameter objects of the six getScores calls, in array order.
DashParams ==
    << [size |-> Num(1)],
       [clearType |-> Str("FULL_COMBO"), size |-> Num(1)],
       [clearType |-> Str("EX_HARD_CLEAR"), size |-> Num(1)],
       [clearType |-> Str("HARD_CLEAR"), size |-> Num(1)],
       [clearType |-> Str("CLEAR"), size |-> Num(1)],
       [page |-> Num(0), size |-> Num(5)] >>

DashIdx == 1..Len(DashParams)

\* Backend data sets; request i counts BackendTotal(db, i) rows in data set db,
\* so the six responses of one data set carry six different totals.
DashDbs == {1, 2}
BackendTotal(db, i) == db * 10 + i

ZeroStats == [total |-> 0, fullCombo |-> 0, exHard |-> 0, hard |-> 0, clear |-> 0]
NoRecent  == [query |-> NoObject, total |-> 0]

NoReq      == [st |-> "none", total |-> 0]
PendingReq == [st |-> "pending", total |-> 0]

\* The response body of request i: totalElements and content.
DashResponse(i, t) ==
    [totalElements |-> t, content |-> [query |-> getScores(DashParams[i]), total |-> t]]

GenericDashError == Str("dashboard-load-failed")

\* setStats({...}) from the destructured array [totalRes, fcRes, ...].
StatsOf_Swapped(res) ==
    [total     |-> res[1].totalElements,
     fullCombo |-> res[2].totalElements,
     exHard    |-> res[4].totalElements,
     hard      |-> res[3].totalElements,
     clear     |-> res[5].totalElements]

StatsOf(res) ==
    [total     |-> res[1].totalElements,
     fullCombo |-> res[2].totalElements,
     exHard    |-> res[3].totalElements,
     hard      |-> res[4].totalElements,
     clear     |-> res[5].totalElements]

DashFrame == UNCHANGED <<storeVars, scVars, authVars, extVars>>

\* fetchDashboardData up to its await.  `isAuthenticated` is the member
\* destructured from the store state, tested for truthiness.
FetchDashboardData(db) ==
    IF ~JsTruthy(AuthStoreState.isAuthenticated)
    THEN /\ dLoading' = FALSE
         /\ wire' = <<>>
         /\ dIssued' = 0
         /\ UNCHANGED <<dError, dReq, dJoin, dDb>>
    ELSE /\ dLoading' = TRUE
         /\ dDb' = db
         /\ dError' = JsNull
         /\ wire' = [i \in DashIdx |-> getScores(DashParams[i])]
         /\ dIssued' = Len(DashParams)
         /\ dReq' = [i \in DashIdx |-> PendingReq]
         /\ dJoin' = "waiting"

\* Mount of a component using the hook: fresh state, then the effect.
DashMount(db) ==
    /\ ~dMounted
    /\ dMounted' = TRUE
    /\ dStats' = ZeroStats
    /\ dRecent' = NoRecent
    /\ dBefore' = [stats |-> ZeroStats, recent |-> NoRecent, session |-> user # JsNull]
    /\ FetchDashboardData(db)
    /\ ev' = "dashMount"
    /\ arg' = 0
    /\ DashFrame

\* refetch, once the previous invocation has settled (the Dashboard page
\* renders only a spinner while isLoading).
DashRefetch(db) ==
    /\ dMounted
    /\ dJoin \in {"resolved", "rejected"}
    /\ dBefore' = [stats |-> dStats, recent |-> dRecent, session |-> user # JsNull]
    /\ FetchDashboardData(db)
    /\ ev' = "dashRefetch"
    /\ arg' = 0
    /\ UNCHANGED <<dMounted, dStats, dRecent>>
    /\ DashFrame

DashUnmount ==
    /\ dMounted
    /\ dMounted' = FALSE
    /\ dStats' = ZeroStats
    /\ dRecent' = NoRecent
    /\ dLoading' = TRUE
    /\ dError' = JsNull
    /\ dReq' = [i \in DashIdx |-> NoReq]
    /\ dJoin' = "none"
    /\ dBefore' = [stats |-> ZeroStats, recent |-> NoRecent, session |-> FALSE]
    /\ dIssued' = 0
    /\ dDb' = 0
    /\ wire' = <<>>
    /\ ev' = "dashUnmount"
    /\ arg' = 0
    /\ DashFrame

AllOk(req) == \A i \in DashIdx : req[i].st = "ok"

\* Request i resolves while every update is applied as it arrives.
DashResolve_Partial(i) ==
    LET t == BackendTotal(dDb, i) IN
    /\ dMounted
    /\ dReq[i].st = "pending"
    /\ dReq' = [dReq EXCEPT ![i] = [st |-> "ok", total |-> t]]
    /\ dStats' = CASE i = 1 -> [dStats EXCEPT !.total = t]
                   [] i = 2 -> [dStats EXCEPT !.fullCombo = t]
                   [] i = 3 -> [dStats EXCEPT !.exHard = t]
                   [] i = 4 -> [dStats EXCEPT !.hard = t]
                   [] i = 5 -> [dStats EXCEPT !.clear = t]
                   [] OTHER -> dStats
    /\ dRecent' = IF i = 6 THEN DashResponse(i, t).content ELSE dRecent
    /\ IF dJoin = "waiting" /\ AllOk(dReq')
       THEN dLoading' = FALSE /\ dJoin' = "resolved"
       ELSE UNCHANGED <<dLoading, dJoin>>
    /\ wire' = <<>>
    /\ ev' = "dashResolve"
    /\ arg' = i
    /\ UNCHANGED <<dMounted, dError, dBefore, dIssued, dDb>>
    /\ DashFrame

\* Request i resolves.  When it is the last of the six and none rejected,
\* Promise.all resolves: setStats, setRecentScores, finally setIsLoading(false).
DashResolve(i) ==
    LET t == BackendTotal(dDb, i) IN
    /\ dMounted
    /\ dReq[i].st = "pending"
    /\ dReq' = [dReq EXCEPT ![i] = [st |-> "ok", total |-> t]]
    /\ IF dJoin = "waiting" /\ AllOk(dReq')
       THEN LET res == [j \in DashIdx |-> DashResponse(j, dReq'[j].total)] IN
            /\ dStats' = StatsOf(res)
            /\ dRecent' = res[6].content
            /\ dLoading' = FALSE
            /\ dJoin' = "resolved"
       ELSE UNCHANGED <<dStats, dRecent, dLoading, dJoin>>
    /\ wire' = <<>>
    /\ ev' = "dashResolve"
    /\ arg' = i
    /\ UNCHANGED <<dMounted, dError, dBefore, dIssued, dDb>>
    /\ DashFrame

\* Request i rejects.  The first rejection rejects Promise.all: setError,
\* finally setIsLoading(false).  Later settlements are discarded.
DashReject(i, err) ==
    /\ dMounted
    /\ dReq[i].st = "pending"
    /\ dReq' = [dReq EXCEPT ![i] = [st |-> "fail", total |-> 0]]
    /\ IF dJoin = "waiting"
       THEN /\ dError' = OrElse(ErrMessage(err), GenericDashError)
            /\ dLoading' = FALSE
            /\ dJoin' = "rejected"
       ELSE UNCHANGED <<dError, dLoading, dJoin>>
    /\ wire' = <<>>
    /\ ev' = "dashReject"
    /\ arg' = i
    /\ UNCHANGED <<dMounted, dStats, dRecent, dBefore, dIssued, dDb>>
    /\ DashFrame

(***************************************************************************)
(* CSV upload page (CsvUpload) and importApi.uploadCsv.                    *)
(***************************************************************************)
MaxUploads == 2   \* upload requests that may be in flight together

\* progressEvent.total of a transport that can compute the length.
ProgressTotal == 3

MaxFileSize == 10 * 1024 * 1024

DotCsv == <<".", "c", "s", "v">>

\* String.prototype.endsWith
EndsWith(str, suffix) ==
    /\ Len(str) >= Len(suffix)
    /\ SubSeq(str, Len(str) - Len(suffix) + 1, Len(str)) = suffix

File(name, size) == [present |-> TRUE, name |-> name, size |-> size]

\* files[0] of an empty FileList.
NoFile == [present |-> FALSE, name |-> <<>>, size |-> 0]

\* What the user may pick or drop: a.csv of 1 KiB, b.csv of exactly 10 MiB,
\* a.csv one byte over the cap, a text file, a name that only contains
\* "csv", an upper-case extension, and nothing at all.
CandidateFiles ==
    { File(<<"a">> \o DotCsv, 1024),
      File(<<"b">> \o DotCsv, MaxFileSize),
      File(<<"a">> \o DotCsv, MaxFileSize + 1),
      File(<<"a", ".", "t", "x", "t">>, 1024),
      File(<<"c", "s", "v">>, 1024),
      File(<<"a", ".", "C", "S", "V">>, 1024),
      NoFile }

PlayStyles == {"SP", "DP"}

NoResult == [present |-> FALSE, file |-> NoFile]

\* The response of the backend to the upload of file f.
ImportResponse(f) == [present |-> TRUE, file |-> f]

\* validateFile without the size limit.
validateFile_NoSizeCheck(selectedFile) ==
    IF ~selectedFile.present THEN FALSE
    ELSE EndsWith(selectedFile.name, DotCsv)

validateFile(selectedFile) ==
    IF ~selectedFile.present THEN FALSE
    ELSE IF ~EndsWith(selectedFile.name, DotCsv) THEN FALSE
    ELSE IF selectedFile.size > MaxFileSize THEN FALSE
    ELSE TRUE

\* Math.round(a / b) for a >= 0, b > 0.
RoundDiv(a, b) == (2 * a + b) \div (2 * b)

CsvFrame == UNCHANGED <<coreVars, sgVars, clVars, rtVars>>

\* handleFileSelect, reached from the file input's onChange and from handleDrop.
HandleFileSelect(selectedFile) ==
    /\ CsvFrame
    /\ IF validateFile(selectedFile)
       THEN /\ cFile' = selectedFile
            /\ cState' = "idle"
            /\ cResult' = NoResult
       ELSE UNCHANGED <<cFile, cState, cResult>>
    /\ cSent' = <<>>
    /\ ev' = "select"
    /\ arg' = selectedFile
    /\ UNCHANGED <<cPlayStyle, cProgress, uploads>>

\* The remove button, rendered while a file is selected.
RemoveFile ==
    /\ CsvFrame
    /\ cFile.present
    /\ cFile' = NoFile
    /\ cState' = "idle"
    /\ cSent' = <<>>
    /\ ev' = "remove"
    /\ arg' = 0
    /\ UNCHANGED <<cPlayStyle, cProgress, cResult, uploads>>

SetPlayStyle(style) ==
    /\ CsvFrame
    /\ cPlayStyle' = style
    /\ cSent' = <<>>
    /\ ev' = "playStyle"
    /\ arg' = 0
    /\ UNCHANGED <<cFile, cState, cProgress, cResult, uploads>>

\* The upload button is rendered unless uploadState is 'success' and is
\* disabled without a file and while uploadState is 'uploading'.
UploadButtonEnabled ==
    /\ cState # "success"
    /\ ~(~cFile.present \/ cState = "uploading")

\* A click on the upload button: handleUpload up to its await.
HandleUpload ==
    /\ CsvFrame
    /\ UploadButtonEnabled
    /\ Len(uploads) < MaxUploads
    /\ IF ~cFile.present
       THEN /\ UNCHANGED <<cState, cProgress, uploads>>
            /\ cSent' = <<>>
       ELSE /\ cState' = "uploading"
            /\ cProgress' = 0
            /\ uploads' = Append(uploads, [file |-> cFile, loaded |-> 0])
            /\ cSent' = <<[file |-> cFile, playStyle |-> cPlayStyle]>>
    /\ ev' = "upload"
    /\ arg' = 0
    /\ UNCHANGED <<cFile, cPlayStyle, cResult>>

\* onUploadProgress of upload i, for an event whose loaded count does not
\* decrease and does not exceed total; total is 0 when not computable.
UploadProgress(i, loaded, total) ==
    /\ CsvFrame
    /\ i \in 1..Len(uploads)
    /\ IF total # 0
       THEN /\ loaded >= uploads[i].loaded /\ loaded <= total
            /\ cProgress' = RoundDiv(loaded * 100, total)
            /\ uploads' = [uploads EXCEPT ![i].loaded = loaded]
       ELSE /\ loaded = uploads[i].loaded
            /\ UNCHANGED <<cProgress, uploads>>
    /\ cSent' = <<>>
    /\ ev' = "progress"
    /\ arg' = 0
    /\ UNCHANGED <<cFile, cPlayStyle, cState, cResult>>

\* Upload i resolves: setResult(data), setUploadState('success').
UploadResolve(i) ==
    /\ CsvFrame
    /\ i \in 1..Len(uploads)
    /\ cResult' = ImportResponse(uploads[i].file)
    /\ cState' = "success"
    /\ uploads' = Remove(uploads, i)
    /\ cSent' = <<>>
    /\ ev' = "uploaded"
    /\ arg' = 0
    /\ UNCHANGED <<cFile, cPlayStyle, cProgress>>

\* Upload i rejects: setUploadState('error').
UploadReject(i) ==
    /\ CsvFrame
    /\ i \in 1..Len(uploads)
    /\ cState' = "error"
    /\ uploads' = Remove(uploads, i)
    /\ cSent' = <<>>
    /\ ev' = "uploadFailed"
    /\ arg' = 0
    /\ UNCHANGED <<cFile, cPlayStyle, cProgress, cResult>>

(***************************************************************************)
(* Signup page (Signup) and the authApi object it calls.                   *)
(***************************************************************************)
SignupFields == {"username", "email", "password", "passwordConfirm"}

\* A string of n copies of the character c.
Repeat(n, c) == [i \in 1..n |-> c]

\* What the user may type into each field.
SignupInputs ==
    [username        |-> {<<>>, <<"a", "b">>, <<"a", "b", "c">>, Repeat(3, " ")},
     email           |-> {<<>>, <<"a", "@", "b">>},
     password        |-> {<<>>, Repeat(7, "x"), Repeat(8, "x"), Repeat(8, "y")},
     passwordConfirm |-> {<<>>, Repeat(8, "x"), Repeat(8, "y")}]

EmptyForm == [f \in SignupFields |-> <<>>]

\* errors = {}: no key is present.
NoErrors == [f \in SignupFields |-> JsUndefined]

RECURSIVE TrimStart(_)
TrimStart(str) ==
    IF str # <<>> /\ Head(str) = " " THEN TrimStart(Tail(str)) ELSE str

RECURSIVE TrimEnd(_)
TrimEnd(str) ==
    IF str # <<>> /\ str[Len(str)] = " "
    THEN TrimEnd(SubSeq(str, 1, Len(str) - 1))
    ELSE str

\* String.prototype.trim
Trim(str) == TrimEnd(TrimStart(str))

\* String.prototype.includes for a one-character needle
Includes(str, c) == \E i \in 1..Len(str) : str[i] = c

\* validate that stops at the first violation it finds.
validate_FirstOnly(form) ==
    IF Trim(form.username) = <<>>
    THEN [NoErrors EXCEPT !["username"] = Str("username-required")]
    ELSE IF Len(form.username) < 3
    THEN [NoErrors EXCEPT !["username"] = Str("username-too-short")]
    ELSE IF ~Includes(form.email, "@")
    THEN [NoErrors EXCEPT !["email"] = Str("email-format")]
    ELSE IF Len(form.password) < 8
    THEN [NoErrors EXCEPT !["password"] = Str("password-too-short")]
    ELSE IF form.password # form.passwordConfirm
    THEN [NoErrors EXCEPT !["passwordConfirm"] = Str("password-mismatch")]
    ELSE NoErrors

\* validate: the newErrors object, an absent key being undefined.
validate(form) ==
    [f \in SignupFields |->
        CASE f = "username" ->
                 IF Trim(form.username) = <<>> THEN Str("username-required")
                 ELSE IF Len(form.username) < 3 THEN Str("username-too-short")
                 ELSE JsUndefined
          [] f = "email" ->
                 IF ~Includes(form.email, "@") THEN Str("email-format")
                 ELSE JsUndefined
          [] f = "password" ->
                 IF Len(form.password) < 8 THEN Str("password-too-short")
                 ELSE JsUndefined
          [] f = "passwordConfirm" ->
                 IF form.password # form.passwordConfirm THEN Str("password-mismatch")
                 ELSE JsUndefined]

\* Object.keys(obj)
ObjectKeys(obj) == {f \in DOMAIN obj : obj[f] # JsUndefined}

\* The members of the authApi object.
AuthApiMethods == {"login", "logout", "getCurrentUser"}

SignupFrame == UNCHANGED <<coreVars, csvVars, clVars, rtVars>>

\* handleChange of one input: the field is stored and its error, when one
\* is shown, is blanked.
HandleChange(name, value) ==
    /\ SignupFrame
    /\ sgForm' = [sgForm EXCEPT ![name] = value]
    /\ sgErrors' = IF JsTruthy(sgErrors[name])
                   THEN [sgErrors EXCEPT ![name] = EmptyStr]
                   ELSE sgErrors
    /\ sgToast' = "none"
    /\ sgSent' = <<>>
    /\ ev' = "change"
    /\ arg' = 0
    /\ UNCHANGED sgSubmitting

\* handleSubmit.  With violations it stores them and returns.  Otherwise it
\* calls authApi.signup inside try: authApi has no such member, so the call
\* throws a TypeError before anything is sent, catch shows the generic error
\* toast and finally clears isSubmitting.
HandleSubmit ==
    /\ SignupFrame
    /\ ~sgSubmitting
    /\ LET validationErrors == validate(sgForm) IN
       IF Cardinality(ObjectKeys(validationErrors)) > 0
       THEN /\ sgErrors' = validationErrors
            /\ sgToast' = "none"
            /\ sgSent' = <<>>
            /\ UNCHANGED sgSubmitting
       ELSE IF "signup" \in AuthApiMethods
       THEN /\ sgSubmitting' = TRUE
            /\ sgSent' = <<[username |-> sgForm.username, email |-> sgForm.email,
                            password |-> sgForm.password]>>
            /\ sgToast' = "none"
            /\ UNCHANGED sgErrors
       ELSE /\ sgSubmitting' = FALSE
            /\ sgSent' = <<>>
            /\ sgToast' = "error"
            /\ UNCHANGED sgErrors
    /\ ev' = "submit"
    /\ arg' = 0
    /\ UNCHANGED sgForm

(***************************************************************************)
(* HTTP client (apiClient): axios instance and its two interceptors.       *)
(***************************************************************************)
XsrfCookieName == <<"X", "S", "R", "F", "-", "T", "O", "K", "E", "N">>
SessionCookieName == <<"s", "i", "d">>
CookieNames == {XsrfCookieName, SessionCookieName}

\* Cookie values: empty, plain, and with "=" inside, at the end, at the start.
CookieValues ==
    { <<>>, <<"a">>, <<"a", "b">>, <<"a", "=", "b">>, <<"a", "b", "=">>, <<"=", "a">> }

Cookie(name, value) == [name |-> name, value |-> value]

\* Cookie jars: at most one cookie per name, in either order.
CookieJars ==
    {<<>>}
    \cup { <<Cookie(n, v)>> : n \in CookieNames, v \in CookieValues }
    \cup UNION { { <<Cookie(n1, v1), Cookie(n2, v2)>> :
                      n2 \in CookieNames \ {n1},
                      v1 \in CookieValues, v2 \in CookieValues } :
                  n1 \in CookieNames }

\* document.cookie: "name=value" pairs joined by "; ".
RECURSIVE DocumentCookie(_)
DocumentCookie(jar) ==
    IF jar = <<>> THEN <<>>
    ELSE LET first == Head(jar).name \o <<"=">> \o Head(jar).value IN
         IF Len(jar) = 1 THEN first
         ELSE first \o <<";", " ">> \o DocumentCookie(Tail(jar))

\* The positions at which sep occurs in str.
Occurrences(str, sep) ==
    {i \in 1..(Len(str) - Len(sep) + 1) : SubSeq(str, i, i + Len(sep) - 1) = sep}

\* String.prototype.split with a non-empty separator.
RECURSIVE Split(_, _)
Split(str, sep) ==
    IF Occurrences(str, sep) = {} THEN <<str>>
    ELSE LET i == CHOOSE k \in Occurrences(str, sep) :
                      \A m \in Occurrences(str, sep) : k <= m
         IN <<SubSeq(str, 1, i - 1)>>
            \o Split(SubSeq(str, i + Len(sep), Len(str)), sep)

\* String.prototype.startsWith
StartsWith(str, prefix) ==
    Len(str) >= Len(prefix) /\ SubSeq(str, 1, Len(prefix)) = prefix

NoToken == [defined |-> FALSE, chars |-> <<>>]
Token(chars) == [defined |-> TRUE, chars |-> chars]

\* document.cookie.split('; ').find(row => row.startsWith('XSRF-TOKEN='))
\*   ?.split('=')[1]
CsrfToken(cookie) ==
    LET rows == Split(cookie, <<";", " ">>)
        hits == {k \in 1..Len(rows) : StartsWith(rows[k], XsrfCookieName \o <<"=">>)}
    IN IF hits = {} THEN NoToken
       ELSE LET k == CHOOSE h \in hits : \A m \in hits : h <= m
                parts == Split(rows[k], <<"=">>)
            IN IF Len(parts) >= 2 THEN Token(parts[2]) ELSE NoToken

\* axios.create({ withCredentials: true, headers: {...} })
BaseConfig ==
    [withCredentials |-> TRUE,
     headers |-> [h \in {"Content-Type"} |-> <<"application/json">>]]

\* The request interceptor: a truthy token becomes the X-XSRF-TOKEN header.
RequestInterceptor(config, cookie) ==
    LET csrfToken == CsrfToken(cookie) IN
    IF csrfToken.defined /\ csrfToken.chars # <<>>
    THEN [config EXCEPT !.headers =
             [h \in DOMAIN config.headers \cup {"X-XSRF-TOKEN"} |->
                 IF h = "X-XSRF-TOKEN" THEN csrfToken.chars ELSE config.headers[h]]]
    ELSE config

\* Failed requests: no response at all, or a response with an error status.
HttpErrors ==
    { [hasResponse |-> FALSE, status |-> 0] }
    \cup { [hasResponse |-> TRUE, status |-> st] : st \in {401, 403, 500} }

NoConfig == [withCredentials |-> FALSE, headers |-> [h \in {} |-> <<>>]]
NothingDelivered == [kind |-> "none", value |-> 0]

ClientFrame == UNCHANGED <<coreVars, csvVars, sgVars, rtVars>>

\* The browser stores the cookies of a response.
SetCookies(jar) ==
    /\ ClientFrame
    /\ cookieJar' = jar
    /\ clWarned' = FALSE
    /\ ev' = "setCookies"
    /\ arg' = 0
    /\ UNCHANGED <<clConfig, clDelivered>>

\* Any apiClient call: the request interceptor prepares the config.
SendRequest ==
    /\ ClientFrame
    /\ clConfig' = RequestInterceptor(BaseConfig, DocumentCookie(cookieJar))
    /\ clWarned' = FALSE
    /\ ev' = "request"
    /\ arg' = 0
    /\ UNCHANGED <<cookieJar, clDelivered>>

\* A response interceptor that ends the session on 401.
OnResponseError_Logout(error) ==
    /\ UNCHANGED <<storeVars, wireVars, scVars, dashVars, csvVars, sgVars, rtVars>>
    /\ clDelivered' = [kind |-> "rejected", value |-> error]
    /\ clWarned' = (error.hasResponse /\ error.status = 401)
    /\ IF error.hasResponse /\ error.status = 401
       THEN /\ user' = JsNull
            /\ route' = "/login"
       ELSE UNCHANGED <<user, route>>
    /\ ev' = "responseError"
    /\ arg' = error
    /\ UNCHANGED <<isLoading, authError, probe, login, logoutReq,
                   everLoggedOut, everRedirected, loginWon, lastLogin>>
    /\ UNCHANGED <<cookieJar, clConfig>>

\* The response interceptor's error handler: warn on 401, reject with error.
OnResponseError(error) ==
    /\ ClientFrame
    /\ clDelivered' = [kind |-> "rejected", value |-> error]
    /\ clWarned' = (error.hasResponse /\ error.status = 401)
    /\ ev' = "responseError"
    /\ arg' = error
    /\ UNCHANGED <<cookieJar, clConfig>>

\* The response interceptor's success handler: the response passes through.
OnResponse(status) ==
    /\ ClientFrame
    /\ clDelivered' = [kind |-> "fulfilled", value |-> status]
    /\ clWarned' = FALSE
    /\ ev' = "response"
    /\ arg' = status
    /\ UNCHANGED <<cookieJar, clConfig>>

(***************************************************************************)
(* Router: the route table of App and the redirects it renders.            *)
(***************************************************************************)
MaxHops == 4   \* redirects followed in a row before the model stops following

\* A route: its path pattern (segments, ":level" being a parameter, and
\* whether it ends in a splat), whether it is nested in the ProtectedRoute
\* layout route, and the target of its <Navigate> element, if it is one.
Page(segs, splat, guarded) ==
    [segs |-> segs, splat |-> splat, guarded |-> guarded,
     redirect |-> FALSE, to |-> <<>>]
Redirect(segs, splat, guarded, to) ==
    [segs |-> segs, splat |-> splat, guarded |-> guarded,
     redirect |-> TRUE, to |-> to]

LoginPath == <<"login">>

\* A route table in which /login is nested in the guarded layout as well.
RouteTable_LoginGuarded ==
    << Page(<<"login">>, FALSE, TRUE),
       Page(<<"signup">>, FALSE, FALSE),
       Page(<<>>, FALSE, TRUE),
       Redirect(<<"dashboard">>, FALSE, TRUE, <<>>),
       Page(<<"scores">>, FALSE, TRUE),
       Page(<<"tier-table", ":level">>, FALSE, TRUE),
       Redirect(<<"tier-table">>, FALSE, TRUE, <<"tier-table", "12">>),
       Redirect(<<"import">>, FALSE, TRUE, <<"import", "csv">>),
       Page(<<"import", "csv">>, FALSE, TRUE),
       Page(<<"profile">>, TRUE, TRUE),
       Page(<<"admin", "tier-table">>, FALSE, TRUE),
       Redirect(<<>>, TRUE, FALSE, <<>>) >>

\* <Routes> of App, in source order; the last route is path="*".
RouteTable ==
    << Page(<<"login">>, FALSE, FALSE),
       Page(<<"signup">>, FALSE, FALSE),
       Page(<<>>, FALSE, TRUE),
       Redirect(<<"dashboard">>, FALSE, TRUE, <<>>),
       Page(<<"scores">>, FALSE, TRUE),
       Page(<<"tier-table", ":level">>, FALSE, TRUE),
       Redirect(<<"tier-table">>, FALSE, TRUE, <<"tier-table", "12">>),
       Redirect(<<"import">>, FALSE, TRUE, <<"import", "csv">>),
       Page(<<"import", "csv">>, FALSE, TRUE),
       Page(<<"profile">>, TRUE, TRUE),
       Page(<<"admin", "tier-table">>, FALSE, TRUE),
       Redirect(<<>>, TRUE, FALSE, <<>>) >>

\* Does the pattern of route r match the pathname?
Matches(r, path) ==
    /\ IF r.splat THEN Len(path) >= Len(r.segs) ELSE Len(path) = Len(r.segs)
    /\ \A i \in 1..Len(r.segs) : r.segs[i] = ":level" \/ r.segs[i] = path[i]

RECURSIVE SegmentScore(_)
SegmentScore(segs) ==
    IF segs = <<>> THEN 0
    ELSE (IF Head(segs) = ":level" THEN 3 ELSE 10) + SegmentScore(Tail(segs))

\* The router's ranking of a route: segment count, static segments above
\* parameters, a penalty for a splat.
Score(r) ==
    Len(r.segs) + (IF r.splat THEN -2 ELSE 0) + SegmentScore(r.segs)

\* The route rendered for a pathname: the best-ranked match, the earlier
\* route on a tie.  Every pathname matches path="*".
MatchedRoute(path) ==
    LET hits == {k \in 1..Len(RouteTable) : Matches(RouteTable[k], path)}
        best == CHOOSE k \in hits :
                   \A m \in hits :
                      \/ Score(RouteTable[k]) > Score(RouteTable[m])
                      \/ Score(RouteTable[k]) = Score(RouteTable[m]) /\ k <= m
    IN RouteTable[best]

\* What is rendered at a pathname for a store state: the guard's waiting
\* screen, a <Navigate> (of the guard or of the route), or a page.
Rendered(path, st) ==
    LET r == MatchedRoute(path) IN
    IF r.guarded /\ ProtectedRoute(st) = "waiting"
    THEN [kind |-> "waiting", to |-> path]
    ELSE IF r.guarded /\ ProtectedRoute(st) = "redirect"
    THEN [kind |-> "navigate", to |-> LoginPath]
    ELSE IF r.redirect
    THEN [kind |-> "navigate", to |-> r.to]
    ELSE [kind |-> "page", to |-> path]

\* Pathnames a user may open: every route, with and without parameters and
\* splat tails, and pathnames no route but "*" matches.
AllPaths ==
    { <<>>, <<"login">>, <<"signup">>, <<"dashboard">>, <<"scores">>,
      <<"tier-table">>, <<"tier-table", "12">>, <<"tier-table", "11">>,
      <<"tier-table", "12", "x">>, <<"import">>, <<"import", "csv">>,
      <<"import", "x">>, <<"profile">>, <<"profile", "x">>,
      <<"admin", "tier-table">>, <<"admin">>, <<"nope">> }

RouterFrame == UNCHANGED <<coreVars, csvVars, sgVars, clVars>>

\* The user opens a pathname (link, history, address bar).
OpenPath(path) ==
    /\ RouterFrame
    /\ location' = path
    /\ hops' = 0
    /\ ev' = "open"
    /\ arg' = 0

\* The rendered <Navigate replace> takes effect.
FollowRedirect ==
    /\ RouterFrame
    /\ hops < MaxHops
    /\ Rendered(location, AuthStoreState).kind = "navigate"
    /\ location' = Rendered(location, AuthStoreState).to
    /\ hops' = hops + 1
    /\ ev' = "redirect"
    /\ arg' = 0

(***************************************************************************)
(* Initial states and specifications.                                      *)
(***************************************************************************)
InitGhost == ev = "init" /\ arg = 0

InitStore ==
    /\ filters = InitialFilters
    /\ pagination = InitialPagination
    /\ filtersId = 0
    /\ paginationId = 0
    /\ prev = [filters |-> InitialFilters, pagination |-> InitialPagination]

InitWire == wire = <<>>

InitScores ==
    /\ scMounted = FALSE
    /\ scData = NoData
    /\ scLoading = TRUE
    /\ scError = JsNull
    /\ scDeps = [filters |-> 0, pagination |-> 0]
    /\ inflight = <<>>
    /\ scLatest = "none"

InitDash ==
    /\ dMounted = FALSE
    /\ dStats = ZeroStats
    /\ dRecent = NoRecent
    /\ dLoading = TRUE
    /\ dError = JsNull
    /\ dReq = [i \in DashIdx |-> NoReq]
    /\ dJoin = "none"
    /\ dBefore = [stats |-> ZeroStats, recent |-> NoRecent, session |-> FALSE]
    /\ dIssued = 0
    /\ dDb = 0

InitCsv ==
    /\ cFile = NoFile
    /\ cPlayStyle = "SP"
    /\ cState = "idle"
    /\ cProgress = 0
    /\ cResult = NoResult
    /\ uploads = <<>>
    /\ cSent = <<>>

InitSignup ==
    /\ sgForm = EmptyForm
    /\ sgErrors = NoErrors
    /\ sgSubmitting = FALSE
    /\ sgToast = "none"
    /\ sgSent = <<>>

InitClient ==
    /\ cookieJar = <<>>
    /\ clConfig = NoConfig
    /\ clDelivered = NothingDelivered
    /\ clWarned = FALSE

\* The pathname the app is opened at.
InitRouter(starts) ==
    /\ location \in starts
    /\ hops = 0

InitPages == InitCsv /\ InitSignup /\ InitClient /\ InitRouter({<<"scores">>})

\* App start: the probe is in flight, the location is one of `starts`.
InitAuth(starts) ==
    /\ user = JsNull
    /\ isLoading = TRUE
    /\ authError = JsNull
    /\ probe = "inflight"
    /\ login = 0
    /\ logoutReq = 0
    /\ route \in starts
    /\ everLoggedOut = FALSE
    /\ everRedirected = FALSE
    /\ loginWon = FALSE
    /\ lastLogin = JsNull

\* Started at the Scores view (store, API and hook specifications).
Init ==
    InitGhost /\ InitStore /\ InitWire /\ InitScores /\ InitDash /\ InitAuth({"/scores"})
    /\ InitPages

\* Started at the dashboard.
InitAtHome ==
    InitGhost /\ InitStore /\ InitWire /\ InitScores /\ InitDash /\ InitAuth({"/"})
    /\ InitPages

\* Started at any URL.
InitAnywhere ==
    InitGhost /\ InitStore /\ InitWire /\ InitScores /\ InitDash /\ InitAuth(Routes)
    /\ InitPages

\* The store on its own, driven by every partial filter object.
NextStore ==
    \/ \E f \in AllPartialFilters : SetFilters(f)
    \/ \E p \in 0..MaxPage : SetPage(p)
    \/ ResetFilters

SpecStore == Init /\ [][NextStore]_vars

\* scoresApi.getScores on its own, driven by arbitrary parameter objects.
NextApi == \E params \in ParamObjects : ApiGetScores(params)

SpecApi == Init /\ [][NextApi]_vars

\* The Scores view: store, hook and its requests.
NextScores ==
    \/ \E f \in UiFilterChanges : SetFilters(f)
    \/ PrevPageClick
    \/ NextPageClick
    \/ \E p \in 0..MaxPage : PageNumberClick(p)
    \/ ResetFilters
    \/ ScMount
    \/ ScUnmount
    \/ ScRefetch
    \/ \E i \in 1..MaxInFlight, t \in Totals : ScResolve(i, t)
    \/ \E i \in 1..MaxInFlight, e \in Errors : ScReject(i, e)

SpecScores == Init /\ [][NextScores]_vars

\* The dashboard hook, with the session probe settling either way.
NextDash ==
    \/ \E u \in Users : ProbeResolve(u)
    \/ ProbeReject
    \/ \E db \in DashDbs : DashMount(db)
    \/ \E db \in DashDbs : DashRefetch(db)
    \/ DashUnmount
    \/ \E i \in DashIdx : DashResolve(i)
    \/ \E i \in DashIdx, e \in Errors : DashReject(i, e)

SpecDash == InitAtHome /\ [][NextDash]_vars

\* Session handling: probe, guard, login, logout, navigation.
NextAuth ==
    \/ \E u \in Users : ProbeResolve(u)
    \/ ProbeReject
    \/ \E r \in Routes : Navigate(r)
    \/ GuardRedirect
    \/ LoginSubmit
    \/ \E u \in Users : LoginResolve(u)
    \/ LoginReject
    \/ LogoutClick
    \/ \E ok \in BOOLEAN : LogoutSettle(ok)

SpecAuth == InitAnywhere /\ [][NextAuth]_vars

\* Started at the CSV upload page.
InitAtImport ==
    InitGhost /\ InitStore /\ InitWire /\ InitScores /\ InitDash
    /\ InitAuth({"/import/csv"}) /\ InitPages

NextCsv ==
    \/ \E f \in CandidateFiles : HandleFileSelect(f)
    \/ RemoveFile
    \/ \E style \in PlayStyles : SetPlayStyle(style)
    \/ HandleUpload
    \/ \E i \in 1..MaxUploads, loaded \in 0..ProgressTotal, total \in {0, ProgressTotal} :
          UploadProgress(i, loaded, total)
    \/ \E i \in 1..MaxUploads : UploadResolve(i)
    \/ \E i \in 1..MaxUploads : UploadReject(i)

SpecCsv == InitAtImport /\ [][NextCsv]_vars

\* Started at the signup page.
InitAtSignup ==
    InitGhost /\ InitStore /\ InitWire /\ InitScores /\ InitDash
    /\ InitAuth({"/signup"}) /\ InitPages

NextSignup ==
    \/ \E name \in SignupFields : \E value \in SignupInputs[name] :
          HandleChange(name, value)
    \/ HandleSubmit

SpecSignup == InitAtSignup /\ [][NextSignup]_vars

\* The HTTP client under the app's startup probe.
NextClient ==
    \/ \E jar \in CookieJars : SetCookies(jar)
    \/ SendRequest
    \/ \E error \in HttpErrors : OnResponseError(error)
    \/ \E status \in {200, 204} : OnResponse(status)
    \/ \E u \in Users : ProbeResolve(u)
    \/ ProbeReject

SpecClient == Init /\ [][NextClient]_vars

\* Opened at any pathname.
InitAtAnyPath ==
    InitGhost /\ InitStore /\ InitWire /\ InitScores /\ InitDash
    /\ InitAuth({"/"}) /\ InitCsv /\ InitSignup /\ InitClient
    /\ InitRouter(AllPaths)

\* The router while the startup probe settles either way.
NextRouter ==
    \/ \E path \in AllPaths : OpenPath(path)
    \/ FollowRedirect
    \/ \E u \in Users : ProbeResolve(u)
    \/ ProbeReject

SpecRouter == InitAtAnyPath /\ [][NextRouter]_vars

Spec == SpecStore

(***************************************************************************)
(* Properties.                                                             *)
(***************************************************************************)

\* C1: after any call setFilters(f), from any reachable store state and for
\* any partial filter object f, pagination.page is 0.
C1_SetFiltersResetsPage == ev = "setFilters" => pagination.page = 0

\* setFilters has acted on a store that was on a later page.
C1_Witness ==
    /\ ev = "setFilters"
    /\ prev.pagination.page > 0
    /\ pagination.page = 0

\* C2: of the parameter object passed to getScores, exactly the fields whose
\* value is '', null or undefined are absent from the transmitted query, and
\* every other field is transmitted with the value it had.
IsEmptyValue(v) == v = EmptyStr \/ v = JsNull \/ v = JsUndefined

C2_OnlyEmptyStripped ==
    ev = "getScores" =>
        /\ Len(wire) = 1
        /\ DOMAIN wire[1] \subseteq DOMAIN arg
        /\ \A k \in DOMAIN arg :
              IF IsEmptyValue(arg[k])
              THEN k \notin DOMAIN wire[1]
              ELSE k \in DOMAIN wire[1] /\ wire[1][k] = arg[k]

\* getScores was called with '', null and the number 0 side by side.
C2_Witness ==
    /\ ev = "getScores"
    /\ DOMAIN arg = ParamKeys
    /\ arg.clearType = EmptyStr /\ arg.level = JsNull /\ arg.page = Num(0)
    /\ DOMAIN wire[1] = {"page"}

\* C3: an invocation of the dashboard aggregation while authStore.user is
\* null issues no request and ends with isLoading false, zero stats and no
\* error.
C3_GateSkipsRequests ==
    (ev = "dashMount" /\ ~dBefore.session) =>
        /\ dIssued = 0
        /\ wire = <<>>
        /\ ~dLoading
        /\ dStats = ZeroStats
        /\ dError = JsNull

\* C4: with a session, an invocation issues exactly the six list requests,
\* and when all six succeed the five stats are the totalElements of the
\* unfiltered, FULL_COMBO, EX_HARD_CLEAR, HARD_CLEAR and CLEAR responses and
\* recentScores is the content of the page-0, size-5 response.
TotalAnswered(query) ==
    BackendTotal(dDb, CHOOSE i \in DashIdx : DashParams[i] = query)

C4_SixRequestsAndStats ==
    /\ (ev \in {"dashMount", "dashRefetch"} /\ dBefore.session) =>
          /\ Len(wire) = 6
          /\ dIssued = 6
          /\ { wire[i] : i \in 1..Len(wire) } =
                { [size |-> Num(1)], [page |-> Num(0), size |-> Num(5)] } \cup
                { [clearType |-> Str(c), size |-> Num(1)] :
                    c \in {"FULL_COMBO", "EX_HARD_CLEAR", "HARD_CLEAR", "CLEAR"} }
    /\ (dJoin = "resolved" /\ dBefore.session) =>
          /\ dStats.total = TotalAnswered([size |-> Num(1)])
          /\ dStats.fullCombo =
                TotalAnswered([clearType |-> Str("FULL_COMBO"), size |-> Num(1)])
          /\ dStats.exHard =
                TotalAnswered([clearType |-> Str("EX_HARD_CLEAR"), size |-> Num(1)])
          /\ dStats.hard =
                TotalAnswered([clearType |-> Str("HARD_CLEAR"), size |-> Num(1)])
          /\ dStats.clear =
                TotalAnswered([clearType |-> Str("CLEAR"), size |-> Num(1)])
          /\ dRecent.query = [page |-> Num(0), size |-> Num(5)]
          /\ dRecent.total = TotalAnswered([page |-> Num(0), size |-> Num(5)])

\* All six requests of an invocation made with a session have succeeded.
C4_Witness ==
    /\ ev = "dashResolve"
    /\ dJoin = "resolved"
    /\ dBefore.session
    /\ dIssued = 6

\* C5: when one of the six requests rejects, whatever the others do, the
\* aggregation ends with an error, not loading, and with stats and
\* recentScores as they were before the invocation.
C5_RejectionLeavesStats ==
    dJoin = "rejected" =>
        /\ dError # JsNull
        /\ ~dLoading
        /\ dStats = dBefore.stats
        /\ dRecent = dBefore.recent

\* One request rejected, the five others succeeded, after an earlier
\* invocation had loaded stats.
C5_Witness ==
    /\ dJoin = "rejected"
    /\ Cardinality({ i \in DashIdx : dReq[i].st = "ok" }) = 5
    /\ dBefore.stats # ZeroStats

\* C6: the guard renders a waiting view while loading whatever the user,
\* a redirect to /login when not loading without user, and the protected
\* content when not loading with a user.
C6_GuardTable ==
    LET view == ProtectedRoute(AuthStoreState) IN
    /\ isLoading => view \notin {"children", "redirect"}
    /\ (~isLoading /\ user = JsNull) => view = "redirect"
    /\ (~isLoading /\ user # JsNull) => view = "children"

\* The guard is evaluated while loading with a user already stored.
C6_Witness == isLoading /\ user # JsNull /\ route \in ProtectedRoutes

\* C7: when the startup probe has succeeded and no logout has occurred, the
\* guard has never redirected to /login, neither before nor after the probe
\* resolved.
C7_NoBounce == (probe = "resolved" /\ ~everLoggedOut) => ~everRedirected

\* The probe has just resolved for a user waiting on a protected route.
C7_Witness ==
    /\ ev = "probeResolve"
    /\ route \in ProtectedRoutes
    /\ ProtectedRoute(AuthStoreState) = "children"

\* C8: once the startup probe has settled, isLoading is false in every
\* later state, whatever logins, logouts and navigations follow.
C8_LoadingStaysFalse == probe # "inflight" => ~isLoading

\* After the probe settled: a logout, then a new login.
C8_Witness ==
    /\ probe # "inflight"
    /\ ~isLoading
    /\ everLoggedOut
    /\ ev = "loginResolve"

\* C9 as stated: when the probe rejects, user is null once it has settled,
\* also when a login succeeded while the probe was in flight.
C9_AnonymousAfterReject == ev = "probeReject" => user = JsNull

\* C9 amended: a rejected probe leaves user as it is; user is null once the
\* probe has settled unless a login succeeded while the probe was in flight,
\* and then user is the user that login stored.
C9_RejectKeepsUser ==
    ev = "probeReject" =>
        IF loginWon THEN user = lastLogin /\ user # JsNull ELSE user = JsNull

\* The probe rejected after a login had succeeded while it was in flight.
C9_Witness == ev = "probeReject" /\ loginWon /\ user \in Users

\* C10: while the Scores view is mounted, the mount and every setFilters,
\* setPage and resetFilters transmit exactly one list request, carrying the
\* non-empty filter fields and the page and size of the resulting state;
\* steps other than these and refetch transmit none.
ExpectedQuery ==
    [k \in { k \in FilterKeys : filters[k] # EmptyStr } \cup {"page", "size"} |->
        CASE k = "page" -> Num(pagination.page)
          [] k = "size" -> Num(pagination.size)
          [] OTHER      -> filters[k]]

C10_OneRequestPerChange ==
    /\ (scMounted /\ ev \in {"mount", "setFilters", "setPage", "resetFilters"}) =>
          /\ wire = <<ExpectedQuery>>
          /\ Len(inflight) > 0
          /\ inflight[Len(inflight)] = ExpectedQuery
    /\ (~scMounted \/ ev \notin {"mount", "setFilters", "setPage", "resetFilters",
                                 "refetch"}) =>
          wire = <<>>

\* A page change back to page 0 with a filter set, while mounted.
C10_Witness ==
    /\ scMounted
    /\ ev = "setPage"
    /\ prev.pagination.page > 0
    /\ wire = <<[playStyle |-> Str("SP"), page |-> Num(0), size |-> Num(DefaultSize)]>>

\* C11: overlapping list requests are never cancelled (issuing one only
\* appends to the requests in flight, settling one removes only that one),
\* and every successful resolution stores the response of the request that
\* resolved, whatever its position in the order of issue; so the response
\* that resolves last is the one the hook is left with.
C11_LastResolvedWins ==
    [][ /\ scMounted /\ scMounted' /\ Len(inflight') > Len(inflight)
           => /\ Len(inflight') = Len(inflight) + 1
              /\ \A j \in 1..Len(inflight) : inflight'[j] = inflight[j]
        /\ ev' \in {"resolve", "reject"} /\ Len(inflight') < Len(inflight)
           => \E i \in 1..Len(inflight) : inflight' = Remove(inflight, i)
        /\ ev' = "resolve"
           => /\ scData'.present
              /\ scData'.content = inflight[arg']
              /\ scData'.number = inflight[arg'].page.n
              /\ inflight' = Remove(inflight, arg') ]_vars

\* Two requests overlapped, both resolved, and the one left on display is
\* not the one for the current filters and page.
C11_Witness ==
    /\ scMounted /\ ev = "resolve" /\ inflight = <<>> /\ scError = JsNull
    /\ scData.present /\ scData.content # ExpectedQuery

\* C12: while a list request of the hook is still pending, isLoading is true.
C12_LoadingWhilePending ==
    (scMounted /\ Len(inflight) > 0) => scLoading

\* C13: a rejection carrying a non-empty backend message X leaves error = X;
\* a rejection without response, without data or with an empty message
\* leaves the generic message; in both cases isLoading is false.
C13_ErrorMessage ==
    ev = "reject" =>
        /\ ~scLoading
        /\ scError = IF arg.hasResponse /\ arg.hasData /\ arg.message # EmptyStr
                         /\ arg.message.tag = "string"
                      THEN arg.message
                      ELSE GenericScoresError

C13_Witness ==
    /\ ev = "reject" /\ arg.hasResponse /\ arg.hasData
    /\ arg.message = EmptyStr /\ scError = GenericScoresError

\* A file validateFile is meant to let through: a name ending in ".csv" and
\* at most 10 MiB.
IsCsvWithinCap(f) ==
    f.present /\ EndsWith(f.name, DotCsv) /\ f.size <= 10 * 1024 * 1024

\* C14: no upload request ever carries a file that is not a .csv of at most
\* 10 MiB; selecting such a file sends nothing and keeps the selected file;
\* selecting a valid one (10 MiB exactly included) makes it the selected
\* file; every upload click on a selected file sends exactly one request
\* with that file and the play style selected at the click; no other step
\* sends a request.
C14_OnlyValidFilesSent ==
    [][ /\ \A k \in 1..Len(cSent') : IsCsvWithinCap(cSent'[k].file)
        /\ \A k \in 1..Len(uploads') : IsCsvWithinCap(uploads'[k].file)
        /\ ev' = "select" =>
              /\ cSent' = <<>>
              /\ cFile' = IF IsCsvWithinCap(arg') THEN arg' ELSE cFile
        /\ ev' = "upload" /\ cFile.present =>
              /\ cSent' = <<[file |-> cFile, playStyle |-> cPlayStyle]>>
              /\ uploads' = Append(uploads, [file |-> cFile, loaded |-> 0])
        /\ ev' # "upload" => cSent' = <<>> /\ Len(uploads') <= Len(uploads)
      ]_vars

\* An upload click sent b.csv of exactly 10 MiB with play style DP.
C14_Witness ==
    /\ ev = "upload"
    /\ cSent = <<[file |-> File(<<"b">> \o DotCsv, 10 * 1024 * 1024),
                  playStyle |-> "DP"]>>

\* C15: the upload status changes only along idle -> uploading,
\* uploading -> success, uploading -> error, and from success or error to
\* idle on a file selection or removal.
C15_StatusTransitions ==
    [][ cState' # cState =>
          \/ cState = "idle" /\ cState' = "uploading"
          \/ cState = "uploading" /\ cState' \in {"success", "error"}
          \/ /\ cState \in {"success", "error"} /\ cState' = "idle"
             /\ ev' \in {"select", "remove"} ]_vars

\* C16: while an upload has not settled, the stored progress percentage
\* never decreases and stays within 0..100.
C16_ProgressMonotone ==
    [][ Len(uploads) > 0 => cProgress' >= cProgress /\ cProgress' \in 0..100 ]_vars

\* The fields in violation: a username that is blank or shorter than 3
\* characters, an email without "@", a password shorter than 8 characters,
\* a confirmation different from the password.
SignupViolations(form) ==
    {f \in SignupFields :
        \/ f = "username" /\ (Len(form.username) < 3
                              \/ \A i \in 1..Len(form.username) : form.username[i] = " ")
        \/ f = "email" /\ ~(\E i \in 1..Len(form.email) : form.email[i] = "@")
        \/ f = "password" /\ Len(form.password) < 8
        \/ f = "passwordConfirm" /\ form.passwordConfirm # form.password}

\* The four violations as the claim lists them: the username one is only
\* "shorter than 3 characters".
ListedViolations(form) ==
    {f \in SignupFields :
        \/ f = "username" /\ Len(form.username) < 3
        \/ f = "email" /\ ~(\E i \in 1..Len(form.email) : form.email[i] = "@")
        \/ f = "password" /\ Len(form.password) < 8
        \/ f = "passwordConfirm" /\ form.passwordConfirm # form.password}

ShownErrors == {f \in SignupFields : JsTruthy(sgErrors[f])}

\* C17 as stated: a submit with at least one of the four listed violations
\* sends nothing and shows an error on exactly the fields in violation.
C17_ListedViolationsOnly ==
    (ev = "submit" /\ ListedViolations(sgForm) # {}) =>
        sgSent = <<>> /\ ShownErrors = ListedViolations(sgForm)

\* C17 (amended): a submit with at least one violation, a blank
\* (empty or whitespace-only) username counting as a username violation,
\* sends nothing and shows an error on exactly the fields in violation.
C17_ViolationsBlockSubmit ==
    (ev = "submit" /\ SignupViolations(sgForm) # {}) =>
        sgSent = <<>> /\ ShownErrors = SignupViolations(sgForm)

\* A submit with exactly the email and confirmation violations.
C17_Witness ==
    /\ ev = "submit"
    /\ SignupViolations(sgForm) = {"email", "passwordConfirm"}
    /\ ShownErrors = {"email", "passwordConfirm"}

\* C18: a submit of an all-valid form leaves no field error on display and
\* sends exactly one signup request.
C18_ValidSubmitSendsOnce ==
    (ev = "submit" /\ SignupViolations(sgForm) = {}) =>
        ShownErrors = {} /\ Len(sgSent) = 1

\* C19: an error response with status 401 reaches the caller as a rejection
\* with the very same error, and this step of the HTTP client leaves the
\* auth store (user, isLoading, error) and the route as they were.
C19_UnauthorizedPropagates ==
    [][ (ev' = "responseError" /\ arg'.hasResponse /\ arg'.status = 401) =>
          /\ clDelivered' = [kind |-> "rejected", value |-> arg']
          /\ UNCHANGED <<user, isLoading, authError, route>> ]_vars

\* A 401 was delivered while a user was signed in on a protected route.
C19_Witness ==
    /\ ev = "responseError" /\ arg.hasResponse /\ arg.status = 401
    /\ clDelivered.kind = "rejected" /\ clDelivered.value.status = 401
    /\ clWarned
    /\ user \in Users /\ route = "/scores"

\* The cookies of the jar that are named XSRF-TOKEN.
XsrfCookies == {k \in 1..Len(cookieJar) : cookieJar[k].name = XsrfCookieName}

\* C20: every request is sent with credentials; with an XSRF-TOKEN cookie
\* the X-XSRF-TOKEN header is that cookie's full value, and without one the
\* header is absent.
C20_CsrfHeaderIsCookieValue ==
    ev = "request" =>
        /\ clConfig.withCredentials
        /\ IF XsrfCookies = {}
           THEN "X-XSRF-TOKEN" \notin DOMAIN clConfig.headers
           ELSE /\ "X-XSRF-TOKEN" \in DOMAIN clConfig.headers
                /\ \A k \in XsrfCookies :
                      clConfig.headers["X-XSRF-TOKEN"] = cookieJar[k].value

\* C21: user goes from null to a user only in a successful login or a
\* successful startup probe, and from a user to null only in the logout
\* handler; a rejected login leaves user, isLoading and error as they were.
C21_UserLifecycle ==
    [][ /\ (user = JsNull /\ user' # JsNull) =>
              ev' \in {"loginResolve", "probeResolve"}
        /\ (user # JsNull /\ user' = JsNull) =>
              ev' \in {"logoutResolve", "logoutReject"}
        /\ ev' = "loginReject" => UNCHANGED <<user, isLoading, authError>> ]_vars

\* A login was rejected while a user was signed in.
C21_Witness == ev = "loginReject" /\ user \in Users /\ ~isLoading

\* C22: when the logout handler has finished, after a successful or a failed
\* backend request, user is null, error is null and the route is /login.
C22_LogoutClearsSession ==
    ev \in {"logoutResolve", "logoutReject"} =>
        user = JsNull /\ authError = JsNull /\ route = "/login"

\* The backend logout request failed and the session is cleared all the same.
C22_Witness ==
    ev = "logoutReject" /\ user = JsNull /\ route = "/login" /\ everLoggedOut

\* C23: a successful login leaves a user in the store together with the
\* route "/", so the guard does not redirect; and a startup probe that
\* settles afterwards, resolved or rejected, keeps a user in the store, so
\* the guard still does not redirect.
C23_NoRedirectAfterLogin ==
    [][ /\ ev' = "loginResolve" =>
              /\ route' = "/"
              /\ user' = arg'
              /\ ProtectedRoute(AuthStoreState') # "redirect"
        /\ (user # JsNull /\ ev' \in {"probeResolve", "probeReject"}) =>
              /\ user' # JsNull
              /\ ProtectedRoute(AuthStoreState') # "redirect"
        /\ ev' = "guardRedirect" => user = JsNull ]_vars

\* The probe rejected after a login had succeeded; the guard of "/" renders
\* its children.
C23_Witness ==
    /\ ev = "probeReject" /\ loginWon /\ route = "/"
    /\ user = lastLogin /\ user \in Users
    /\ ProtectedRoute(AuthStoreState) = "children"

\* C24: setFilters(f) sets exactly the filter fields named in f, keeps the
\* other filter fields and pagination.size; setPage(p) sets pagination.page
\* to p and keeps filters and pagination.size; resetFilters yields the four
\* filters '', page 0 and size 20.
C24_StoreFrame ==
    /\ DOMAIN filters = FilterKeys
    /\ ev = "setFilters" =>
          /\ \A k \in FilterKeys :
                filters[k] = IF k \in DOMAIN arg THEN arg[k] ELSE prev.filters[k]
          /\ pagination.size = prev.pagination.size
    /\ ev = "setPage" =>
          /\ pagination.page = arg
          /\ pagination.size = prev.pagination.size
          /\ filters = prev.filters
    /\ ev = "resetFilters" =>
          /\ filters = [k \in FilterKeys |-> Str("")]
          /\ pagination = [page |-> 0, size |-> 20]

\* setFilters({level: '12'}) on a state whose playStyle was 'SP'.
C24_Witness ==
    /\ ev = "setFilters" /\ DOMAIN arg = {"level"} /\ arg.level = Str("12")
    /\ prev.filters.playStyle = Str("SP") /\ prev.filters.level = Str("")
    /\ filters.playStyle = Str("SP") /\ filters.level = Str("12")

\* What the hook returns: scores, totalElements, totalPages, currentPage.
HookView ==
    [scores        |-> IF scData.present THEN scData.content ELSE NoObject,
     totalElements |-> IF scData.present THEN scData.totalElements ELSE 0,
     totalPages    |-> IF scData.present THEN scData.totalPages ELSE 0,
     currentPage   |-> IF scData.present THEN scData.number ELSE 0]

\* C25: a successful fetch replaces data by its response as a whole, so the
\* four values the hook returns always belong to one response; a failed
\* fetch leaves data as it was.
C25_DataFromOneResponse ==
    [][ /\ ev' = "resolve" =>
              \E t \in Totals : scData' = PageResponse(inflight[arg'], t)
        /\ ev' = "reject" => scData' = scData
        /\ scData'.present =>
              \E t \in Totals :
                 /\ HookView'.scores = PageResponse(scData'.content, t).content
                 /\ HookView'.totalElements = t
                 /\ HookView'.totalPages = PageResponse(scData'.content, t).totalPages
                 /\ HookView'.currentPage = PageResponse(scData'.content, t).number
      ]_vars

\* A fetch failed after a response with 45 rows had been loaded; the rows
\* are still there.
C25_Witness ==
    /\ scMounted /\ ev = "reject" /\ scError # JsNull
    /\ scData.present /\ scData.totalElements = 45 /\ scData.totalPages = 3

\* C26: with no list request in flight and the request issued last having
\* succeeded, the hook's error is null.
C26_NoStaleError ==
    (scMounted /\ inflight = <<>> /\ scLatest = "ok") => scError = JsNull

\* C27: whenever the pagination bar is shown, the page of the displayed
\* response is the page the store holds.
C27_DisplayedPageIsStorePage ==
    PaginationShown => CurrentPage = pagination.page

\* C28: at most one upload request is in flight at any time.
C28_SingleUploadInFlight == Len(uploads) <= 1

\* C29: whenever the upload status is success, a file is selected and the
\* displayed result is the backend's response to the upload of that file.
C29_ResultOfSelectedFile ==
    cState = "success" =>
        /\ cFile.present
        /\ cResult.present
        /\ cResult.file = cFile

\* C30: a chain of redirects is at most two redirects long, so it ends at a
\* pathname that renders without redirecting and never returns to a
\* pathname it has left; this includes every resolved auth state.
C30_RedirectsTerminate ==
    /\ hops <= 2
    /\ (hops = 2 /\ ~isLoading) => Rendered(location, AuthStoreState).kind = "page"

\* An unknown pathname went to "/" and from there, without a user, to /login.
C30_Witness ==
    /\ ev = "redirect" /\ hops = 2 /\ location = LoginPath
    /\ ~isLoading /\ user = JsNull
    /\ Rendered(location, AuthStoreState).kind = "page"
====
